---- MODULE Spec2Model ----
(***************************************************************************)
(* State-machine model of the CTA model pipeline (luiskrnr/cta-model):     *)
(*   convert.py       convert_nii_to_mha                                   *)
(*   segment.py       extract_connected_components                         *)
(*   filter.py        anisotropic_diffusion_filtering                      *)
(*   generate_net.py  generate_mesh                                        *)
(*   optimize_net.py  improve_tin                                          *)
(* Each script reads the previous script's stdout from stdin, works on the *)
(* files named there and prints the paths for the next script.             *)
(***************************************************************************)
EXTENDS Integers, Sequences, FiniteSets, TLC

(* ------------------------------ bounds -------------------------------- *)
\* number of voxels of the labeled volume
NumVoxels == 3
\* largest component_size (min_voxel_count) argument tried
MaxSize == 2
\* longest list of meshes handed to the optimizer on its own
MaxMeshes == 2
\* most connected regions in one mesh
MaxRegions == 2
\* number of voxels of the volume sent through several scripts or runs
PipeVoxels == 2

(* --------------------------- input domains ---------------------------- *)
\* raw voxel labels of the input image
Labels == {0, 1, 2, 3}
\* directories used as output folders
Dirs == {"seg", "smooth"}
\* triangle counts of a connected region, artifact_tolerance arguments
CellCounts == {5, 500}
Tolerances == {5, 50, 501}

\* sitk.sitkUInt16: the pixel type the image is cast to
UInt16 == 65536

VARIABLES
    conv_pc,             \* convert.py: "start", "exit" ("absent": not run)
    conv_outcome,        \* convert.py: how the script ended ("" while running)
    conv_stdout,         \* convert.py: lines printed to stdout
    tty_answers,         \* the operator: the line typed at the prompt of each
                         \* component, where the runs are compared (else <<>>)
    first_run,           \* segment.py: <<>>, or the argument and the output of
                         \* the run made before on the same input
    disk,                \* the file system: path -> content, DOMAIN = existing files
    disk0,               \* the file system when the run started
    np_array,            \* segment.py: the voxel array of the input image
    component_size,      \* segment.py: argv[2]
    seg_folder,          \* segment.py: argv[1], output_folder
    seg_pc,              \* segment.py: "idle", "start", "loop", "exit" ("absent": not run)
    seg_outcome,         \* segment.py: how the script ended ("" while running)
    component_id,        \* segment.py: loop variable of the component loop
    components,          \* segment.py: the list components
    seg_stdout,          \* segment.py: lines printed to stdout
    flt_folder,          \* filter.py: argv[1], output_folder
    flt_pc,              \* filter.py: "idle", "run", "exit" ("absent": not run)
    flt_stdin,           \* filter.py: components_dir
    flt_i,               \* filter.py: position in component_files
    flt_stdout,          \* filter.py: lines printed to stdout
    flt_outcome,         \* filter.py: how the script ended
    gen_pc,              \* generate_net.py: "idle", "run", "exit" ("absent": not run)
    gen_stdin,           \* generate_net.py: components
    gen_i,               \* generate_net.py: position in components
    gen_stdout,          \* generate_net.py: lines printed to stdout
    gen_outcome,         \* generate_net.py: how the script ended
    artifact_tolerance,  \* optimize_net.py: argv[4]
    opt_pc,              \* optimize_net.py: "idle", "run", "exit"
    opt_components,      \* optimize_net.py: components
    opt_i,               \* optimize_net.py: position in components
    poly_data,           \* optimize_net.py: regions of the mesh last cleaned
    append_filter,       \* optimize_net.py: region ids added to append_filter
    opt_outcome          \* optimize_net.py: how the script ended

convVars == <<conv_pc, conv_outcome, conv_stdout>>
runVars == <<tty_answers, first_run>>
segVars == <<np_array, component_size, seg_folder, seg_pc, seg_outcome,
             component_id, components, seg_stdout>>
fltVars == <<flt_folder, flt_pc, flt_stdin, flt_i, flt_stdout, flt_outcome>>
genVars == <<gen_pc, gen_stdin, gen_i, gen_stdout, gen_outcome>>
optVars == <<artifact_tolerance, opt_pc, opt_components, opt_i, poly_data,
             append_filter, opt_outcome>>
vars == <<disk, disk0, convVars, runVars, segVars, fltVars, genVars, optVars>>

(* ------------------------------ paths --------------------------------- *)
\* A path "<dir>/Component<id><sfx...>.<ext>"; a basename has dir = "".
\* id 0 names the file of the whole converted image.
Path(d, n, s, e) == [dir |-> d, id |-> n, sfx |-> s, ext |-> e]

basename(p) == [p EXCEPT !.dir = ""]
dirname(p) == p.dir
\* os.path.join(folder, name) for a relative name
join(folder, name) == [name EXCEPT !.dir = folder]

(* --------------------------- file contents ---------------------------- *)
\* kind: "old" (there before the run), "component", "smoothed", "mesh",
\* "optimized"; mask: the foreground voxels of a volume; cells: the triangle
\* count of each connected region of a mesh.
Content(k, m, c) == [kind |-> k, mask |-> m, cells |-> c]
OldContent == Content("old", {}, <<>>)

\* writing content c to path f
WriteFile(d, f, c) == [p \in (DOMAIN d) \cup {f} |-> IF p = f THEN c ELSE d[p]]

(* ===================== segment.py: component extractor ================ *)
\* sitk.Cast(sitk_image, sitk.sitkUInt16) of one voxel value
Cast(v) == v % UInt16

RECURSIVE SortedSeq(_)
\* the elements of a set of numbers in ascending order
SortedSeq(S) ==
    IF S = {} THEN <<>>
    ELSE LET m == CHOOSE x \in S : \A y \in S : x <= y
         IN  <<m>> \o SortedSeq(S \ {m})

\* np.unique(np_array): the distinct voxel values, ascending
unique_values == SortedSeq({np_array[v] : v \in DOMAIN np_array})
number_components == Len(unique_values) - 1

\* range(1, unique_values.size + 1)
ComponentIds == 1 .. Len(unique_values)

\* BinaryThresholdImageFilter with lower = upper = id: the voxels equal to id
Mask(id) == {v \in DOMAIN np_array : np_array[v] = id}
\* np.sum of the binary image
component_voxel_count(id) == Cardinality(Mask(id))
\* a mutant of PassesSizeFilter: the comparison is turned around
PassesSizeFilterInverted(count) == count <= component_size
\* component_voxel_count >= component_size
PassesSizeFilter(count) == count >= component_size
\* os.path.join(output_folder, f"Component{component_id}.mha")
component_file(id) == Path(seg_folder, id, <<>>, "mha")

SegFatalOutcomes == {"read_error", "empty_volume", "extract_error",
                     "tty_error", "write_error"}
\* the exit status of segment.py once it has ended
SegStatus == IF seg_outcome \in SegFatalOutcomes THEN 1 ELSE 0

\* sys.exit / falling off the end of the script
SegExit(outcome) ==
    /\ seg_pc' = "exit"
    /\ seg_outcome' = outcome

\* stdin is read to its end (convert.py has ended): input_file
SegStart ==
    /\ seg_pc = "idle"
    /\ conv_pc = "exit"
    /\ seg_pc' = "start"
    /\ UNCHANGED <<disk, seg_outcome, component_id, components, seg_stdout>>

\* input_file names an image: it was given by hand or printed by convert.py
InputImageGiven == conv_pc = "absent" \/ conv_stdout # <<>>

\* sitk.ReadImage raises: logged, sys.exit(1)
SegReadFail ==
    /\ seg_pc = "start"
    /\ SegExit("read_error")
    /\ UNCHANGED <<disk, component_id, components, seg_stdout>>

\* number_components == 0: warning, sys.exit(1)
SegEmptyVolume ==
    /\ seg_pc = "start"
    /\ InputImageGiven
    /\ number_components = 0
    /\ SegExit("empty_volume")
    /\ UNCHANGED <<disk, component_id, components, seg_stdout>>

\* the image was read and has components: components = [], the loop starts
SegEnterLoop ==
    /\ seg_pc = "start"
    /\ InputImageGiven
    /\ number_components # 0
    /\ seg_pc' = "loop"
    /\ component_id' = 1
    /\ components' = <<>>
    /\ UNCHANGED <<disk, seg_outcome, seg_stdout>>

\* the loop body runs for the current component_id
InLoop == seg_pc = "loop" /\ component_id \in ComponentIds

\* the next iteration of the for loop
SegNextId == component_id' = component_id + 1 /\ seg_pc' = "loop"

\* the threshold filter or the voxel count raises: critical, sys.exit(1)
SegExtractFail ==
    /\ InLoop
    /\ SegExit("extract_error")
    /\ UNCHANGED <<disk, component_id, components, seg_stdout>>

\* the component is below component_size: warning, next component
SegTooSmall ==
    /\ InLoop
    /\ ~PassesSizeFilter(component_voxel_count(component_id))
    /\ SegNextId
    /\ UNCHANGED <<disk, seg_outcome, components, seg_stdout>>

\* what a line read from /dev/tty can be, after strip().lower()
Answers == {"y", "n", ""}

\* os.path.exists(component_file) and user_input != 'y'
Declined(f, user_input) == f \in DOMAIN disk /\ user_input # "y"

\* a mutant of SegDecline: the decline ends the script as in convert.py
SegDeclineExits ==
    /\ InLoop
    /\ PassesSizeFilter(component_voxel_count(component_id))
    /\ \E user_input \in Answers :
          Declined(component_file(component_id), user_input)
    /\ SegExit("no_components")
    /\ UNCHANGED <<disk, component_id, components, seg_stdout>>

\* the file exists and the answer is not 'y': info, continue with the next
\* component, nothing written, nothing appended
SegDecline ==
    /\ InLoop
    /\ PassesSizeFilter(component_voxel_count(component_id))
    /\ \E user_input \in Answers :
          Declined(component_file(component_id), user_input)
    /\ SegNextId
    /\ UNCHANGED <<disk, seg_outcome, components, seg_stdout>>

\* the file exists and /dev/tty cannot be opened or read: the exception is
\* caught by the loop's handler, critical, sys.exit(1)
SegTtyFail ==
    /\ InLoop
    /\ PassesSizeFilter(component_voxel_count(component_id))
    /\ component_file(component_id) \in DOMAIN disk
    /\ SegExit("tty_error")
    /\ UNCHANGED <<disk, component_id, components, seg_stdout>>

\* a mutant of SegWrite: the path is printed as soon as the file is written
SegWriteStreams ==
    /\ InLoop
    /\ PassesSizeFilter(component_voxel_count(component_id))
    /\ \E user_input \in Answers :
          ~Declined(component_file(component_id), user_input)
    /\ disk' = WriteFile(disk, component_file(component_id),
                         Content("component", Mask(component_id), <<>>))
    /\ components' = Append(components, component_file(component_id))
    /\ seg_stdout' = Append(seg_stdout, component_file(component_id))
    /\ SegNextId
    /\ UNCHANGED seg_outcome

\* itk.imwrite writes the component, its path is appended to components
SegWrite ==
    /\ InLoop
    /\ PassesSizeFilter(component_voxel_count(component_id))
    /\ \E user_input \in Answers :
          ~Declined(component_file(component_id), user_input)
    /\ disk' = WriteFile(disk, component_file(component_id),
                         Content("component", Mask(component_id), <<>>))
    /\ components' = Append(components, component_file(component_id))
    /\ SegNextId
    /\ UNCHANGED <<seg_outcome, seg_stdout>>

\* a mutant of SegWriteFail: the error is logged and the loop goes on
SegWriteFailGoesOn ==
    /\ InLoop
    /\ PassesSizeFilter(component_voxel_count(component_id))
    /\ \E user_input \in Answers :
          ~Declined(component_file(component_id), user_input)
    /\ seg_outcome' = "write_error"
    /\ SegNextId
    /\ UNCHANGED <<disk, components, seg_stdout>>

\* itk.imwrite raises: critical, sys.exit(1)
SegWriteFail ==
    /\ InLoop
    /\ PassesSizeFilter(component_voxel_count(component_id))
    /\ \E user_input \in Answers :
          ~Declined(component_file(component_id), user_input)
    /\ SegExit("write_error")
    /\ UNCHANGED <<disk, component_id, components, seg_stdout>>

\* after the loop, len(components) >= 1: every path is printed
SegPrint ==
    /\ seg_pc = "loop"
    /\ component_id \notin ComponentIds
    /\ Len(components) >= 1
    /\ seg_stdout' = components
    /\ SegExit("emitted")
    /\ UNCHANGED <<disk, component_id, components>>

\* after the loop, no component left: info, sys.exit(0)
SegNothing ==
    /\ seg_pc = "loop"
    /\ component_id \notin ComponentIds
    /\ Len(components) < 1
    /\ SegExit("no_components")
    /\ UNCHANGED <<disk, component_id, components, seg_stdout>>

\* what a step of segment.py leaves alone
SegFrame == UNCHANGED <<disk0, np_array, component_size, seg_folder,
                        convVars, runVars, fltVars, genVars, optVars>>

NextSeg ==
    \/ SegReadFail /\ SegFrame
    \/ SegEmptyVolume /\ SegFrame
    \/ SegEnterLoop /\ SegFrame
    \/ SegExtractFail /\ SegFrame
    \/ SegTooSmall /\ SegFrame
    \/ SegDecline /\ SegFrame
    \/ SegTtyFail /\ SegFrame
    \/ SegWrite /\ SegFrame
    \/ SegWriteFail /\ SegFrame
    \/ SegPrint /\ SegFrame
    \/ SegNothing /\ SegFrame

\* segment.py runs with this disk, the other scripts have not started
InitSegOn(volumes, sizes, existing) ==
    /\ \E raw \in volumes : np_array = [v \in DOMAIN raw |-> Cast(raw[v])]
    /\ component_size \in sizes
    /\ seg_folder = "seg"
    /\ \E E \in existing : disk = [p \in {component_file(i) : i \in E} |-> OldContent]
    /\ disk0 = disk
    /\ seg_pc = "start"
    /\ seg_outcome = ""
    /\ component_id = 0
    /\ components = <<>>
    /\ seg_stdout = <<>>

\* convert.py is not part of the run: the input image is given in argv/stdin
ConvAbsent ==
    /\ conv_pc = "absent"
    /\ conv_outcome = ""
    /\ conv_stdout = <<>>

\* one run of segment.py, the operator answers as they like
SingleRun ==
    /\ tty_answers = <<>>
    /\ first_run = <<>>

FltIdle ==
    /\ flt_pc = "idle"
    /\ flt_stdin = <<>>
    /\ flt_i = 0
    /\ flt_stdout = <<>>
    /\ flt_outcome = ""

GenIdle ==
    /\ gen_pc = "idle"
    /\ gen_stdin = <<>>
    /\ gen_i = 0
    /\ gen_stdout = <<>>
    /\ gen_outcome = ""

OptIdle ==
    /\ opt_pc = "idle"
    /\ opt_components = <<>>
    /\ opt_i = 0
    /\ poly_data = <<>>
    /\ append_filter = <<>>
    /\ opt_outcome = ""

\* the extractor alone, on every volume of NumVoxels voxels
InitSeg ==
    /\ InitSegOn([1 .. NumVoxels -> Labels], 0 .. MaxSize, SUBSET (1 .. NumVoxels))
    /\ flt_folder = "smooth"
    /\ artifact_tolerance = 50
    /\ ConvAbsent /\ SingleRun
    /\ FltIdle /\ GenIdle /\ OptIdle

SpecSeg == InitSeg /\ [][NextSeg]_vars

\* the extractor alone, on the volumes that hold a background voxel
InitSegBackground ==
    /\ InitSegOn({raw \in [1 .. NumVoxels -> Labels] : \E v \in DOMAIN raw : raw[v] = 0},
                 0 .. MaxSize, SUBSET (1 .. NumVoxels))
    /\ flt_folder = "smooth"
    /\ artifact_tolerance = 50
    /\ ConvAbsent /\ SingleRun
    /\ FltIdle /\ GenIdle /\ OptIdle

SpecSegBackground == InitSegBackground /\ [][NextSeg]_vars

(* ===================== convert.py: format conversion ================== *)
\* output_mha_path + "/" + file_name + ".mha"
final_path == Path("mha", 0, <<>>, "mha")

ConvFatalOutcomes == {"read_error", "tty_error", "write_error"}
\* the exit status of convert.py once it has ended
ConvStatus == IF conv_outcome \in ConvFatalOutcomes THEN 1 ELSE 0

ConvExit(outcome) ==
    /\ conv_pc' = "exit"
    /\ conv_outcome' = outcome

\* sitk.ReadImage raises: critical, sys.exit(1)
ConvReadFail ==
    /\ conv_pc = "start"
    /\ ConvExit("read_error")
    /\ UNCHANGED <<disk, conv_stdout>>

\* the file exists and the answer is not 'y': info, sys.exit(0), nothing
\* written, nothing printed
ConvCancel ==
    /\ conv_pc = "start"
    /\ \E user_input \in Answers : Declined(final_path, user_input)
    /\ ConvExit("cancelled")
    /\ UNCHANGED <<disk, conv_stdout>>

\* the file exists and /dev/tty cannot be opened or read: the exception is
\* caught by the handler, critical, sys.exit(1)
ConvTtyFail ==
    /\ conv_pc = "start"
    /\ final_path \in DOMAIN disk
    /\ ConvExit("tty_error")
    /\ UNCHANGED <<disk, conv_stdout>>

\* sitk.WriteImage writes the image; print(final_path)
ConvWrite ==
    /\ conv_pc = "start"
    /\ \E user_input \in Answers : ~Declined(final_path, user_input)
    /\ disk' = WriteFile(disk, final_path,
                         Content("volume", {v \in DOMAIN np_array : np_array[v] # 0}, <<>>))
    /\ conv_stdout' = <<final_path>>
    /\ ConvExit("converted")

\* sitk.WriteImage raises: critical, sys.exit(1)
ConvWriteFail ==
    /\ conv_pc = "start"
    /\ \E user_input \in Answers : ~Declined(final_path, user_input)
    /\ ConvExit("write_error")
    /\ UNCHANGED <<disk, conv_stdout>>

\* what a step of convert.py leaves alone
ConvFrame == UNCHANGED <<disk0, runVars, segVars, fltVars, genVars, optVars>>

NextConv ==
    \/ ConvReadFail /\ ConvFrame
    \/ ConvCancel /\ ConvFrame
    \/ ConvTtyFail /\ ConvFrame
    \/ ConvWrite /\ ConvFrame
    \/ ConvWriteFail /\ ConvFrame

\* convert.py piped into segment.py, on every volume of PipeVoxels voxels;
\* the converted image and the component files may exist already
InitConv ==
    /\ \E raw \in [1 .. PipeVoxels -> Labels] :
          np_array = [v \in DOMAIN raw |-> Cast(raw[v])]
    /\ component_size \in 0 .. MaxSize
    /\ seg_folder = "seg"
    /\ \E E \in SUBSET (1 .. PipeVoxels) : \E V \in SUBSET {final_path} :
          disk = [p \in {component_file(i) : i \in E} \cup V |-> OldContent]
    /\ disk0 = disk
    /\ conv_pc = "start"
    /\ conv_outcome = ""
    /\ conv_stdout = <<>>
    /\ seg_pc = "idle"
    /\ seg_outcome = ""
    /\ component_id = 0
    /\ components = <<>>
    /\ seg_stdout = <<>>
    /\ flt_folder = "smooth"
    /\ artifact_tolerance = 50
    /\ SingleRun
    /\ FltIdle /\ GenIdle /\ OptIdle

NextConvSeg ==
    \/ NextConv
    \/ SegStart /\ SegFrame
    \/ NextSeg

SpecConv == InitConv /\ [][NextConvSeg]_vars

(* ------------- segment.py run twice on the same input ----------------- *)
\* the lines the operator types where two runs are compared
TypedAnswers == {"y", "n"}

\* the operator's line for the prompt of the current component
OperatorDeclines == tty_answers[component_id] # "y"
OperatorAgrees ==
    \/ component_file(component_id) \notin DOMAIN disk
    \/ tty_answers[component_id] = "y"

\* the script has ended; it is started once more on the same image and the
\* same files, with a component_size at least as large
SegRunAgain ==
    /\ seg_pc = "exit"
    /\ first_run = <<>>
    /\ first_run' = <<[component_size |-> component_size,
                       seg_outcome |-> seg_outcome,
                       seg_stdout |-> seg_stdout]>>
    /\ component_size' \in component_size .. MaxSize
    /\ disk' = disk0
    /\ seg_pc' = "start"
    /\ seg_outcome' = ""
    /\ component_id' = 0
    /\ components' = <<>>
    /\ seg_stdout' = <<>>
    /\ UNCHANGED <<disk0, np_array, seg_folder, tty_answers, convVars,
                   fltVars, genVars, optVars>>

\* the steps of segment.py with an operator who types tty_answers
NextSegTwice ==
    \/ SegReadFail /\ SegFrame
    \/ SegEmptyVolume /\ SegFrame
    \/ SegEnterLoop /\ SegFrame
    \/ SegExtractFail /\ SegFrame
    \/ SegTooSmall /\ SegFrame
    \/ SegDecline /\ OperatorDeclines /\ SegFrame
    \/ SegTtyFail /\ SegFrame
    \/ SegWrite /\ OperatorAgrees /\ SegFrame
    \/ SegWriteFail /\ OperatorAgrees /\ SegFrame
    \/ SegPrint /\ SegFrame
    \/ SegNothing /\ SegFrame
    \/ SegRunAgain

\* the extractor on every volume of PipeVoxels voxels, with every way the
\* operator may answer for each component
InitSegTwice ==
    /\ InitSegOn([1 .. PipeVoxels -> Labels], 0 .. MaxSize, SUBSET (1 .. PipeVoxels))
    /\ tty_answers \in [1 .. PipeVoxels -> TypedAnswers]
    /\ first_run = <<>>
    /\ flt_folder = "smooth"
    /\ artifact_tolerance = 50
    /\ ConvAbsent
    /\ FltIdle /\ GenIdle /\ OptIdle

SpecSegTwice == InitSegTwice /\ [][NextSegTwice]_vars

(* ===================== filter.py: volume smoother ===================== *)
\* name.replace('.mha', '_smoothed.mha') on a basename
ReplaceMhaBySmoothedMha(name) ==
    IF name.ext = "mha" THEN [name EXCEPT !.sfx = Append(@, "_smoothed")] ELSE name

\* os.path.join(output_folder,
\*              os.path.basename(component_file).replace('.mha', '_smoothed.mha'))
FltOutputFile(file) ==
    join(flt_folder, ReplaceMhaBySmoothedMha(basename(file)))

FltFatalOutcomes == {"no_components", "smooth_error"}
\* the exit status of filter.py once it has ended
FltStatus == IF flt_outcome \in FltFatalOutcomes THEN 1 ELSE 0

FltExit(outcome) ==
    /\ flt_pc' = "exit"
    /\ flt_outcome' = outcome

\* stdin is read to its end (the extractor has ended); the list is not empty
FltStart ==
    /\ flt_pc = "idle"
    /\ seg_pc = "exit"
    /\ Len(seg_stdout) # 0
    /\ flt_stdin' = seg_stdout
    /\ flt_pc' = "run"
    /\ flt_i' = 1
    /\ UNCHANGED <<disk, flt_stdout, flt_outcome>>

\* len(component_files) == 0: warning, sys.exit(1)
FltNoComponents ==
    /\ flt_pc = "idle"
    /\ seg_pc = "exit"
    /\ Len(seg_stdout) = 0
    /\ flt_stdin' = seg_stdout
    /\ FltExit("no_components")
    /\ UNCHANGED <<disk, flt_i, flt_stdout>>

FltInLoop == flt_pc = "run" /\ flt_i \in DOMAIN flt_stdin

\* the component is read, filtered and written to output_file;
\* print(component_file)
FltSmooth ==
    /\ FltInLoop
    /\ flt_stdin[flt_i] \in DOMAIN disk
    /\ disk' = WriteFile(disk, FltOutputFile(flt_stdin[flt_i]),
                         Content("smoothed", disk[flt_stdin[flt_i]].mask, <<>>))
    /\ flt_stdout' = Append(flt_stdout, flt_stdin[flt_i])
    /\ flt_i' = flt_i + 1
    /\ UNCHANGED <<flt_pc, flt_stdin, flt_outcome>>

\* reading, filtering or writing raises: critical, sys.exit(1)
FltFail ==
    /\ FltInLoop
    /\ FltExit("smooth_error")
    /\ UNCHANGED <<disk, flt_stdin, flt_i, flt_stdout>>

\* the loop is over, the script ends
FltFinish ==
    /\ flt_pc = "run"
    /\ flt_i \notin DOMAIN flt_stdin
    /\ FltExit("done")
    /\ UNCHANGED <<disk, flt_stdin, flt_i, flt_stdout>>

\* what a step of filter.py leaves alone
FltFrame == UNCHANGED <<disk0, convVars, runVars, segVars, flt_folder,
                        genVars, optVars>>

NextFlt ==
    \/ FltStart /\ FltFrame
    \/ FltNoComponents /\ FltFrame
    \/ FltSmooth /\ FltFrame
    \/ FltFail /\ FltFrame
    \/ FltFinish /\ FltFrame

(* ===================== generate_net.py: isosurface ==================== *)
\* f"{os.path.splitext(component_file)[0]}_smoothed.mha"
smoothed_file(file) ==
    [file EXCEPT !.sfx = Append(@, "_smoothed"), !.ext = "mha"]

\* name.replace('_smoothed.mha', '.vtk') on a basename
ReplaceSmoothedMhaByVtk(name) ==
    IF /\ name.ext = "mha"
       /\ Len(name.sfx) > 0
       /\ name.sfx[Len(name.sfx)] = "_smoothed"
    THEN [name EXCEPT !.sfx = SubSeq(@, 1, Len(@) - 1), !.ext = "vtk"]
    ELSE name

\* os.path.join(os.path.dirname(component_file),
\*              os.path.basename(smoothed_file).replace('_smoothed.mha', '.vtk'))
GenOutputFile(file) ==
    join(dirname(file),
         ReplaceSmoothedMhaByVtk(basename(smoothed_file(file))))

\* vtkContourFilter on the smoothed volume: the regions of the isosurface;
\* a volume without foreground has no surface
Isosurfaces(volume) ==
    IF volume.mask = {} THEN {<<>>} ELSE {<<500>>, <<5, 500>>}

GenFatalOutcomes == {"smoothed_missing", "mesh_error", "write_error"}
\* the exit status of generate_net.py once it has ended
GenStatus == IF gen_outcome \in GenFatalOutcomes THEN 1 ELSE 0

GenExit(outcome) ==
    /\ gen_pc' = "exit"
    /\ gen_outcome' = outcome

\* stdin is read to its end (the smoother has ended); generate_mesh is called
GenStart ==
    /\ gen_pc = "idle"
    /\ flt_pc = "exit"
    /\ gen_stdin' = flt_stdout
    /\ gen_pc' = "run"
    /\ gen_i' = 1
    /\ UNCHANGED <<disk, gen_stdout, gen_outcome>>

GenInLoop == gen_pc = "run" /\ gen_i \in DOMAIN gen_stdin

\* the smoothed file is read, contoured and the mesh written;
\* print(output_file)
GenMesh ==
    /\ GenInLoop
    /\ smoothed_file(gen_stdin[gen_i]) \in DOMAIN disk
    /\ \E mesh \in Isosurfaces(disk[smoothed_file(gen_stdin[gen_i])]) :
          disk' = WriteFile(disk, GenOutputFile(gen_stdin[gen_i]),
                            Content("mesh", {}, mesh))
    /\ gen_stdout' = Append(gen_stdout, GenOutputFile(gen_stdin[gen_i]))
    /\ gen_i' = gen_i + 1
    /\ UNCHANGED <<gen_pc, gen_stdin, gen_outcome>>

\* itk.imread(smoothed_file) raises because no file has that path:
\* critical, sys.exit(1)
GenSmoothedMissing ==
    /\ GenInLoop
    /\ smoothed_file(gen_stdin[gen_i]) \notin DOMAIN disk
    /\ GenExit("smoothed_missing")
    /\ UNCHANGED <<disk, gen_stdin, gen_i, gen_stdout>>

\* itk.imread or the contour filter raises for another reason (the file is
\* unreadable, the filter fails): critical, sys.exit(1)
GenFail ==
    /\ GenInLoop
    /\ GenExit("mesh_error")
    /\ UNCHANGED <<disk, gen_stdin, gen_i, gen_stdout>>

\* the writer raises: critical, sys.exit(1)
GenWriteFail ==
    /\ GenInLoop
    /\ smoothed_file(gen_stdin[gen_i]) \in DOMAIN disk
    /\ GenExit("write_error")
    /\ UNCHANGED <<disk, gen_stdin, gen_i, gen_stdout>>

\* the loop is over, the script ends
GenFinish ==
    /\ gen_pc = "run"
    /\ gen_i \notin DOMAIN gen_stdin
    /\ GenExit("done")
    /\ UNCHANGED <<disk, gen_stdin, gen_i, gen_stdout>>

\* what a step of generate_net.py leaves alone
GenFrame == UNCHANGED <<disk0, convVars, runVars, segVars, fltVars, optVars>>

NextGen ==
    \/ GenStart /\ GenFrame
    \/ GenMesh /\ GenFrame
    \/ GenSmoothedMissing /\ GenFrame
    \/ GenFail /\ GenFrame
    \/ GenWriteFail /\ GenFrame
    \/ GenFinish /\ GenFrame

(* ===================== optimize_net.py: mesh optimizer ================ *)
\* os.path.join(os.path.dirname(component),
\*              f"{os.path.splitext(os.path.basename(component))[0]}_optimized.vtk")
OptimizedFile(component) ==
    join(dirname(component),
         Path("", component.id, Append(component.sfx, "_optimized"), "vtk"))

\* vtkPolyDataReader + vtkCleanPolyData + vtkConnectivityFilter: the cell
\* count of each connected region of the cleaned mesh; a file that is not
\* there reads as a mesh without cells
ReadRegions(component) ==
    IF component \in DOMAIN disk THEN disk[component].cells ELSE <<>>

\* a mutant of KeepRegion: a region of exactly artifact_tolerance cells is dropped
KeepRegionStrict(num_cells) == num_cells > artifact_tolerance

\* num_cells >= artifact_tolerance
KeepRegion(num_cells) == num_cells >= artifact_tolerance

RECURSIVE AppendRegions(_, _)
\* for region_id in range(num_regions): the ids given to append_filter.AddInputData
AppendRegions(cells, num_regions) ==
    IF num_regions = 0 THEN <<>>
    ELSE LET region_id == num_regions - 1
             before == AppendRegions(cells, num_regions - 1)
         IN  IF KeepRegion(cells[region_id + 1])
             THEN Append(before, region_id)
             ELSE before

\* append_filter.GetOutput(): the cells of the regions that were added
AppendOutput(cells, ids) == [k \in DOMAIN ids |-> cells[ids[k] + 1]]

\* the mesh after stages 1-6 as written by vtkPolyDataWriter
OptimizedContent(cells) ==
    Content("optimized", {}, AppendOutput(cells, AppendRegions(cells, Len(cells))))

OptFatalOutcomes == {"optimize_error", "write_error"}
\* the exit status of optimize_net.py once it has ended
OptStatus == IF opt_outcome \in OptFatalOutcomes THEN 1 ELSE 0

OptExit(outcome) ==
    /\ opt_pc' = "exit"
    /\ opt_outcome' = outcome

\* stdin is at its end: the script before has ended, or the list was supplied
OptStdinRead == gen_pc \in {"exit", "absent"}

\* stdin is read to its end; len(components) >= 1: improve_tin is called
OptStart ==
    /\ opt_pc = "idle"
    /\ OptStdinRead
    /\ Len(gen_stdout) >= 1
    /\ opt_components' = gen_stdout
    /\ opt_pc' = "run"
    /\ opt_i' = 1
    /\ UNCHANGED <<disk, poly_data, append_filter, opt_outcome>>

\* stdin is empty: improve_tin is not called, the script ends
OptNoInput ==
    /\ opt_pc = "idle"
    /\ OptStdinRead
    /\ Len(gen_stdout) < 1
    /\ opt_components' = gen_stdout
    /\ OptExit("no_input")
    /\ UNCHANGED <<disk, opt_i, poly_data, append_filter>>

\* the loop body runs for components[opt_i]
OptInLoop == opt_pc = "run" /\ opt_i \in DOMAIN opt_components

\* a mutant of OptReadFail: the error is logged and the next mesh is taken
OptReadFailGoesOn ==
    /\ OptInLoop
    /\ opt_outcome' = "optimize_error"
    /\ opt_i' = opt_i + 1
    /\ UNCHANGED <<disk, opt_pc, opt_components, poly_data, append_filter>>

\* reading or cleaning the mesh raises: critical, sys.exit(1)
OptReadFail ==
    /\ OptInLoop
    /\ OptExit("optimize_error")
    /\ UNCHANGED <<disk, opt_components, opt_i, poly_data, append_filter>>

\* the regions were appended, one of the later filters raises: critical,
\* sys.exit(1)
OptFilterFail ==
    /\ OptInLoop
    /\ poly_data' = ReadRegions(opt_components[opt_i])
    /\ append_filter' = AppendRegions(poly_data', Len(poly_data'))
    /\ OptExit("optimize_error")
    /\ UNCHANGED <<disk, opt_components, opt_i>>

\* all filters ran and the writer wrote the optimized mesh: next mesh
OptWrite ==
    /\ OptInLoop
    /\ poly_data' = ReadRegions(opt_components[opt_i])
    /\ append_filter' = AppendRegions(poly_data', Len(poly_data'))
    /\ disk' = WriteFile(disk, OptimizedFile(opt_components[opt_i]),
                         OptimizedContent(poly_data'))
    /\ opt_i' = opt_i + 1
    /\ UNCHANGED <<opt_pc, opt_components, opt_outcome>>

\* a mutant of OptWriteFail: the meshes written so far are removed again
OptWriteFailRollsBack ==
    /\ OptInLoop
    /\ poly_data' = ReadRegions(opt_components[opt_i])
    /\ append_filter' = AppendRegions(poly_data', Len(poly_data'))
    /\ disk' = [f \in {g \in DOMAIN disk : g \in DOMAIN disk0} |-> disk[f]]
    /\ OptExit("write_error")
    /\ UNCHANGED <<opt_components, opt_i>>

\* all filters ran and the writer raises: critical, sys.exit(1)
OptWriteFail ==
    /\ OptInLoop
    /\ poly_data' = ReadRegions(opt_components[opt_i])
    /\ append_filter' = AppendRegions(poly_data', Len(poly_data'))
    /\ OptExit("write_error")
    /\ UNCHANGED <<disk, opt_components, opt_i>>

\* the loop is over: "All steps finished", the script ends
OptFinish ==
    /\ opt_pc = "run"
    /\ opt_i \notin DOMAIN opt_components
    /\ OptExit("done")
    /\ UNCHANGED <<disk, opt_components, opt_i, poly_data, append_filter>>

\* what a step of optimize_net.py leaves alone
OptFrame == UNCHANGED <<disk0, convVars, runVars, segVars, fltVars, genVars,
                        artifact_tolerance>>

NextOpt ==
    \/ OptStart /\ OptFrame
    \/ OptNoInput /\ OptFrame
    \/ OptReadFail /\ OptFrame
    \/ OptFilterFail /\ OptFrame
    \/ OptWrite /\ OptFrame
    \/ OptWriteFail /\ OptFrame
    \/ OptFinish /\ OptFrame

\* the raw meshes: one cell count per connected region
MeshSet == UNION {[1 .. n -> CellCounts] : n \in 0 .. MaxRegions}
\* the path of the i-th raw mesh of a list supplied to the optimizer
MeshFile(i) == Path("seg", i, <<>>, "vtk")

\* optimize_net.py alone, on a supplied list of raw meshes (gen_stdout holds
\* the list given on stdin); the other scripts are not run ("absent")
InitOpt ==
    /\ \E n \in 0 .. MaxMeshes : \E meshes \in [1 .. n -> MeshSet] :
          /\ gen_stdout = [i \in 1 .. n |-> MeshFile(i)]
          /\ disk = [f \in {MeshFile(i) : i \in 1 .. n} |->
                        Content("mesh", {}, meshes[f.id])]
    /\ disk0 = disk
    /\ artifact_tolerance \in Tolerances
    /\ gen_pc = "absent" /\ gen_outcome = ""
    /\ gen_stdin = <<>> /\ gen_i = 0
    /\ np_array = [v \in 1 .. NumVoxels |-> 0]
    /\ component_size = 0
    /\ seg_folder = "seg"
    /\ seg_pc = "absent" /\ seg_outcome = ""
    /\ component_id = 0 /\ components = <<>> /\ seg_stdout = <<>>
    /\ flt_folder = "seg"
    /\ flt_pc = "absent" /\ flt_outcome = ""
    /\ flt_stdin = <<>> /\ flt_i = 0 /\ flt_stdout = <<>>
    /\ ConvAbsent /\ SingleRun
    /\ OptIdle

SpecOpt == InitOpt /\ [][NextOpt]_vars

(* ============================ the pipeline ============================ *)
\* a volume with the labels 1, 2 and 3 in which only label 2 has a single
\* voxel
ThreeLabelVolume == <<1, 1, 2, 3, 3>>

\* the four scripts chained by their stdout/stdin, on every volume of
\* PipeVoxels voxels and on ThreeLabelVolume
Init ==
    /\ InitSegOn([1 .. PipeVoxels -> Labels] \cup {ThreeLabelVolume},
                 0 .. MaxSize, SUBSET (1 .. PipeVoxels))
    /\ flt_folder \in Dirs
    /\ artifact_tolerance = 50
    /\ ConvAbsent /\ SingleRun
    /\ FltIdle /\ GenIdle /\ OptIdle

Next == NextSeg \/ NextFlt \/ NextGen \/ NextOpt

Spec == Init /\ [][Next]_vars

(* ---------------- properties of the component extractor --------------- *)
\* the elements of a sequence
Range(s) == {s[i] : i \in DOMAIN s}
\* the distinct nonzero labels of the volume
NonzeroLabels == {np_array[v] : v \in DOMAIN np_array} \ {0}
\* the voxels whose value is L
VoxelsOf(L) == {v \in DOMAIN np_array : np_array[v] = L}
\* the script ended and no read, extraction, prompt or write error occurred
SegEndedWithoutIOError ==
    seg_pc = "exit" /\ seg_outcome \in {"empty_volume", "emitted", "no_components"}
NoTargetExisted == DOMAIN disk0 = {}
EmittedIds == [i \in DOMAIN seg_stdout |-> seg_stdout[i].id]

\* C1: with min_voxel_count = 0, no target pre-existing and no I/O error, a
\* volume with k distinct nonzero labels yields exactly k emitted paths, the
\* component emitted for label L holds exactly the voxels of value L, and no
\* emitted component is empty.
C1_OneComponentPerLabel ==
    (SegEndedWithoutIOError /\ NoTargetExisted /\ component_size = 0) =>
        /\ Len(seg_stdout) = Cardinality(NonzeroLabels)
        /\ \A L \in NonzeroLabels :
              /\ component_file(L) \in Range(seg_stdout)
              /\ component_file(L) \in DOMAIN disk
              /\ disk[component_file(L)].mask = VoxelsOf(L)
        /\ \A i \in DOMAIN seg_stdout :
              /\ seg_stdout[i].id \in NonzeroLabels
              /\ disk[seg_stdout[i]].mask # {}

\* C2: with min_voxel_count >= 1, no target pre-existing and no I/O error,
\* the emitted labels are exactly the distinct nonzero labels with at least
\* min_voxel_count voxels, in ascending order.
C2_EmitsLabelsAboveThreshold ==
    (SegEndedWithoutIOError /\ NoTargetExisted /\ component_size >= 1) =>
        EmittedIds = SortedSeq({L \in NonzeroLabels :
                                   Cardinality(VoxelsOf(L)) >= component_size})

\* C3: without I/O error the script ends with the fatal empty-volume outcome
\* (status 1, nothing emitted) iff the volume has no nonzero label; with some
\* nonzero label but every label below min_voxel_count it ends with status 0
\* and an empty list.
C3_EmptyVolumeIffNoLabel ==
    SegEndedWithoutIOError =>
        /\ (seg_outcome = "empty_volume") <=> (NonzeroLabels = {})
        /\ (seg_outcome = "empty_volume") => (SegStatus = 1 /\ seg_stdout = <<>>)
        /\ ( /\ NonzeroLabels # {}
             /\ \A L \in NonzeroLabels : Cardinality(VoxelsOf(L)) < component_size )
           => (SegStatus = 0 /\ seg_stdout = <<>>)

\* label id was handled by the loop and passed the size filter
Accepted(id) == id \in ComponentIds /\ component_voxel_count(id) >= component_size
\* the file of id was written in this run and its path kept for the output
WrittenAndKept(id) ==
    /\ component_file(id) \in Range(components)
    /\ component_file(id) \in DOMAIN disk
    /\ disk[component_file(id)] = Content("component", VoxelsOf(id), <<>>)
\* the file of id was there before the run, is untouched and is not output
SkippedUntouched(id) ==
    /\ component_file(id) \in DOMAIN disk0
    /\ component_file(id) \notin Range(components)
    /\ component_file(id) \in DOMAIN disk
    /\ disk[component_file(id)] = disk0[component_file(id)]

\* C4: declining the overwrite of one accepted label skips exactly that
\* label: unless an I/O error occurs the script ends only after the last
\* label, every accepted label handled so far is either written and kept for
\* the output or (its file having existed) left untouched and left out, a
\* label whose file did not exist is never left out, and the printed list is
\* the kept list.
C4_DeclineSkipsOnlyThatLabel ==
    (seg_pc \in {"loop", "exit"} /\ seg_outcome \in {"", "emitted", "no_components"}) =>
        /\ (seg_pc = "exit") => (component_id = Len(unique_values) + 1)
        /\ \A id \in ComponentIds :
              (id < component_id /\ Accepted(id)) =>
                  (WrittenAndKept(id) \/ SkippedUntouched(id))
        /\ (seg_pc = "exit") => (seg_stdout = components /\ SegStatus = 0)

\* C4 witness: Component1..3 existed, Component2 was declined, 1 and 3 were
\* overwritten, and exactly Component1 and Component3 are emitted.
C4_Witness ==
    /\ seg_outcome = "emitted"
    /\ {component_file(1), component_file(2), component_file(3)} \subseteq DOMAIN disk0
    /\ Accepted(1) /\ Accepted(2) /\ Accepted(3)
    /\ seg_stdout = <<component_file(1), component_file(3)>>
    /\ disk[component_file(2)] = OldContent
    /\ disk[component_file(1)].kind = "component"

\* C5: an extraction or persistence error on a label ends the script with
\* status 1: nothing is printed, and no label from the failing one on is
\* written.
C5_ComponentErrorIsFatal ==
    (seg_outcome \in {"extract_error", "write_error"}) =>
        /\ seg_pc = "exit"
        /\ SegStatus = 1
        /\ seg_stdout = <<>>
        /\ \A id \in ComponentIds :
              id >= component_id =>
                  /\ (component_file(id) \in DOMAIN disk) <=> (component_file(id) \in DOMAIN disk0)
                  /\ (component_file(id) \in DOMAIN disk) => disk[component_file(id)] = disk0[component_file(id)]

\* C5 witness: Component1 was written, writing Component2 failed, and an
\* accepted label 3 was still to come.
C5_Witness ==
    /\ seg_outcome = "write_error"
    /\ component_id = 2
    /\ components = <<component_file(1)>>
    /\ Accepted(3)
    /\ component_file(3) \notin DOMAIN disk

(* ------------------ properties of the mesh optimizer ------------------ *)
\* the optimized file of the j-th input was written in this run
OptWritten(j) ==
    /\ OptimizedFile(opt_components[j]) \in DOMAIN disk
    /\ OptimizedFile(opt_components[j]) \notin DOMAIN disk0
\* no optimized file of the j-th input was written in this run
OptNotWritten(j) ==
    /\ OptimizedFile(opt_components[j]) \in DOMAIN disk
          <=> OptimizedFile(opt_components[j]) \in DOMAIN disk0
    /\ OptimizedFile(opt_components[j]) \in DOMAIN disk
          => disk[OptimizedFile(opt_components[j])] = disk0[OptimizedFile(opt_components[j])]

\* C6 as stated: a failure in reading or in stages 1-5 of mesh opt_i aborts
\* only that mesh; when the script has ended every later mesh is optimized
\* and written.
C6_FailureAbortsOnlyThatMesh ==
    (opt_outcome = "optimize_error" /\ opt_pc = "exit") =>
        /\ OptNotWritten(opt_i)
        /\ \A j \in DOMAIN opt_components : j > opt_i => OptWritten(j)

\* C6 amended: a failure in reading or in the filter stages of mesh opt_i is
\* fatal for the whole run: the script ends with status 1, no optimized file
\* is written for that mesh or any later one, and the files written for the
\* earlier meshes stay.
C6_StageFailureIsFatal ==
    (opt_outcome = "optimize_error") =>
        /\ opt_pc = "exit"
        /\ OptStatus = 1
        /\ \A j \in DOMAIN opt_components :
              /\ j >= opt_i => OptNotWritten(j)
              /\ j < opt_i => OptWritten(j)

\* C6 witness: the first of two meshes failed in a stage, the second was
\* never optimized.
C6_Witness ==
    /\ opt_outcome = "optimize_error"
    /\ opt_i = 1
    /\ Len(opt_components) = 2
    /\ OptimizedFile(opt_components[2]) \notin DOMAIN disk

\* C7: a failure while writing the optimized mesh of input opt_i is fatal:
\* the script ends with status 1, no mesh from opt_i on is written, and the
\* optimized files of the earlier inputs are on disk as they were written.
C7_WriteFailureIsFatal ==
    (opt_outcome = "write_error") =>
        /\ opt_pc = "exit"
        /\ OptStatus = 1
        /\ \A j \in DOMAIN opt_components :
              /\ j >= opt_i => OptNotWritten(j)
              /\ j < opt_i =>
                    /\ OptWritten(j)
                    /\ disk[OptimizedFile(opt_components[j])]
                          = OptimizedContent(disk[opt_components[j]].cells)

\* C7 witness: the first mesh was written, writing the second one failed.
C7_Witness ==
    /\ opt_outcome = "write_error"
    /\ opt_i = 2
    /\ OptimizedFile(opt_components[1]) \in DOMAIN disk
    /\ OptimizedFile(opt_components[2]) \notin DOMAIN disk

\* no region of the mesh has at least artifact_tolerance cells
NoSurvivingRegion(cells) ==
    \A r \in DOMAIN cells : cells[r] < artifact_tolerance

\* C8: a mesh without a region of at least artifact_min_cells triangles is
\* not optimized: no optimized file is written for it.
C8_NoFileWithoutSurvivingRegion ==
    \A j \in DOMAIN opt_components :
        NoSurvivingRegion(disk[opt_components[j]].cells) => OptNotWritten(j)

\* how often region r was given to append_filter
TimesAppended(r) == Cardinality({k \in DOMAIN append_filter : append_filter[k] = r})

\* C9: of the mesh cleaned last, a region is given to the decimation once if
\* it has at least artifact_tolerance cells and not at all otherwise, and
\* the optimized file holds the cells of the surviving regions only.
C9_RegionKeptIffLargeEnough ==
    /\ \A k \in DOMAIN append_filter : append_filter[k] \in 0 .. Len(poly_data) - 1
    /\ \A r \in 0 .. Len(poly_data) - 1 :
          TimesAppended(r) = IF poly_data[r + 1] >= artifact_tolerance THEN 1 ELSE 0
    /\ \A j \in DOMAIN opt_components :
          (opt_pc # "idle" /\ j < opt_i) =>
              LET cells == disk[opt_components[j]].cells
                  out == disk[OptimizedFile(opt_components[j])].cells
              IN  /\ Len(out) = Cardinality({r \in DOMAIN cells : cells[r] >= artifact_tolerance})
                  /\ \A k \in DOMAIN out : out[k] >= artifact_tolerance
    /\ (opt_pc = "run" /\ opt_i > 1) => poly_data = disk[opt_components[opt_i - 1]].cells

\* C9 witness: regions of 5 and 500 cells with threshold 50: only the region
\* of 500 cells was passed on and written.
C9_Witness ==
    /\ artifact_tolerance = 50
    /\ poly_data = <<5, 500>>
    /\ append_filter = <<1>>
    /\ opt_pc = "run" /\ opt_i = 2
    /\ disk[OptimizedFile(opt_components[1])].cells = <<500>>

(* --------------------- properties of the pipeline --------------------- *)
\* C10: when the extractor emits no path and ends with status 0, the run
\* ends successfully: no later script ends with a failure status and no
\* later script writes or prints anything.
C10_EmptyOutputEndsRunSuccessfully ==
    (seg_pc = "exit" /\ SegStatus = 0 /\ seg_stdout = <<>>) =>
        /\ flt_pc = "exit" => FltStatus = 0
        /\ gen_pc = "exit" => GenStatus = 0
        /\ opt_pc = "exit" => OptStatus = 0
        /\ flt_stdout = <<>> /\ gen_stdout = <<>>
        /\ \A f \in DOMAIN disk : disk[f].kind \in {"old", "component"}

\* the four scripts have ended and none met a read, extraction, prompt,
\* filter or write error of the environment
PipelineEndedWithoutIOError ==
    /\ SegEndedWithoutIOError
    /\ flt_pc = "exit" /\ flt_outcome \in {"done", "no_components"}
    /\ gen_pc = "exit" /\ gen_outcome \in {"done", "smoothed_missing"}
    /\ opt_pc = "exit" /\ opt_outcome \in {"done", "no_input"}
\* the names of the optimized meshes on disk
OptimizedOutputs == {basename(f) : f \in {g \in DOMAIN disk : disk[g].kind = "optimized"}}
\* Component<L>_optimized.vtk
OptimizedName(L) == Path("", L, <<"_optimized">>, "vtk")

\* C11: end to end, without I/O error and without pre-existing file, the
\* optimized meshes on disk are exactly Component<L>_optimized for the labels
\* L the extractor emitted; for the labels 1, 2, 3 with only label 2 below
\* the threshold these are Component1_optimized and Component3_optimized.
C11_OptimizedOutputsAreEmittedLabels ==
    (PipelineEndedWithoutIOError /\ NoTargetExisted) =>
        /\ OptimizedOutputs = {OptimizedName(seg_stdout[i].id) : i \in DOMAIN seg_stdout}
        /\ (np_array = ThreeLabelVolume /\ component_size = 2) =>
              OptimizedOutputs = {OptimizedName(1), OptimizedName(3)}

(* ------------------ properties of two extractor runs ------------------ *)
\* the run made before on the same input
FirstRun == first_run[1]
\* the labels of the paths in a printed list
LabelsOf(stdout) == {stdout[i].id : i \in DOMAIN stdout}
\* two runs were made and neither met an I/O error
BothRunsEndedWithoutIOError ==
    /\ first_run # <<>>
    /\ FirstRun.seg_outcome \in {"empty_volume", "emitted", "no_components"}
    /\ SegEndedWithoutIOError

\* C12: of two runs on the same volume and files, with the same answer of the
\* operator for each component and without I/O error, the run with the
\* larger min_voxel_count emits at most as many components as the other, and
\* the labels it emits are among those the other emits.
C12_EmissionIsMonotonic ==
    BothRunsEndedWithoutIOError =>
        /\ FirstRun.component_size <= component_size
        /\ Len(seg_stdout) <= Len(FirstRun.seg_stdout)
        /\ LabelsOf(seg_stdout) \subseteq LabelsOf(FirstRun.seg_stdout)

\* C12 witness: volume with one labelled voxel, Component1 existing and its
\* overwrite accepted: threshold 0 emitted two paths, threshold 1 only the
\* first of them.
C12_Witness ==
    /\ BothRunsEndedWithoutIOError
    /\ FirstRun.component_size = 0 /\ component_size = 1
    /\ component_file(1) \in DOMAIN disk0
    /\ tty_answers[1] = "y"
    /\ FirstRun.seg_stdout = <<component_file(1), component_file(2)>>
    /\ seg_stdout = <<component_file(1)>>

(* ------------------ properties of the overwrite prompt ---------------- *)
\* C13: when a target file exists and no terminal can be opened for the
\* answer, the confirmation resolves to a predetermined answer or to deny:
\* the script skips the item and goes on, it does not end with a failure
\* status because of the missing terminal.
C13_NoTerminalIsNeverFatal ==
    /\ (conv_outcome = "tty_error") => ConvStatus = 0
    /\ (seg_outcome = "tty_error") => (SegStatus = 0 /\ seg_pc # "exit")

(* ------------------ properties of the volume smoother ----------------- *)
\* C14: on success the smoother has printed one path per input, in input
\* order, and the i-th printed path is the path of the smoothed volume it
\* wrote for the i-th input, <output_folder>/<basename>_smoothed.mha, not the
\* path of the input.
C14_SmootherEmitsSmoothedPaths ==
    (flt_pc = "exit" /\ flt_outcome = "done") =>
        /\ Len(flt_stdout) = Len(flt_stdin)
        /\ \A i \in DOMAIN flt_stdin :
              /\ FltOutputFile(flt_stdin[i]) \in DOMAIN disk
              /\ disk[FltOutputFile(flt_stdin[i])].kind = "smoothed"
              /\ flt_stdout[i] = FltOutputFile(flt_stdin[i])
              /\ flt_stdout[i] # flt_stdin[i]

\* C15: for every path the isosurface script received, the smoothed file it
\* opens for that path is the file the smoother wrote for that item,
\* whatever the smoother's output folder is.
C15_MeshReadsWhatSmootherWrote ==
    \A i \in DOMAIN gen_stdin :
        smoothed_file(gen_stdin[i]) = FltOutputFile(flt_stdin[i])

(* ------------- the extractor's output, all or nothing ----------------- *)
\* the component files written during this run, by ascending label
WrittenInRun ==
    LET ids == SortedSeq({id \in ComponentIds :
                             /\ component_file(id) \in DOMAIN disk
                             /\ disk[component_file(id)].kind = "component"})
    IN  [i \in DOMAIN ids |-> component_file(ids[i])]

\* C16: the extractor prints all or nothing: nothing is printed while labels
\* are still being processed; a run that ends in a fatal abort has printed no
\* path, whatever was written before the failing label; a run that ends with
\* status 0 has processed every label and has printed, in order, exactly
\* the components written during the run.
C16_EmitsAllOrNothing ==
    /\ seg_pc \in {"start", "loop"} => seg_stdout = <<>>
    /\ (seg_pc = "exit" /\ SegStatus = 1) => seg_stdout = <<>>
    /\ (seg_pc = "exit" /\ SegStatus = 0) =>
          /\ component_id = Len(unique_values) + 1
          /\ seg_stdout = WrittenInRun

\* C16 witness: Component1 and Component2 were written, the extraction of
\* label 3 failed, and nothing was printed.
C16_Witness ==
    /\ seg_pc = "exit"
    /\ seg_outcome = "extract_error"
    /\ component_id = 3
    /\ WrittenInRun = <<component_file(1), component_file(2)>>
    /\ seg_stdout = <<>>

====
